---- MODULE Spec2Model ----
(***************************************************************************)
(* Model of validateBankAccount/main.go: the provider filter               *)
(* (providersToCall), the provider client (checkProvider) and the fan-out  *)
(* / fan-in aggregator (checkProviders) with its goroutines, WaitGroup and *)
(* unbuffered channel.                                                     *)
(*                                                                         *)
(* FilterSpec draws a configured provider list and a request filter and    *)
(* applies providersToCall.  Spec draws the provider list handed to        *)
(* checkProviders and runs the goroutines of one invocation in every       *)
(* interleaving, every provider answering in every way the HTTP client can *)
(* report.                                                                 *)
(***************************************************************************)
EXTENDS Integers, Sequences, FiniteSets, TLC

VARIABLES env, installed, startErr, reqBody, account, hresp,
          config, filter, hpc, selected,
          accountNumber, providers, mpc, idx, wg, chanClosed, recvd, results,
          cpc, wpc, resp, out, crashed, handed

filterVars == <<env, installed, startErr, reqBody, account, hresp,
                config, filter, hpc, selected>>
coreVars == <<accountNumber, providers, mpc, idx, wg, chanClosed, recvd, results,
              cpc, wpc, resp, out, crashed, handed>>
vars == <<env, installed, startErr, reqBody, account, hresp,
          config, filter, hpc, selected,
          accountNumber, providers, mpc, idx, wg, chanClosed, recvd, results,
          cpc, wpc, resp, out, crashed, handed>>

(* ------------------------------ bounds --------------------------------- *)

\* longest provider list (configured, or handed to checkProviders)
MaxProviders == 2
\* longest list of names in a request's "providers" filter
MaxFilter == 2

(* ------------------------------ domains -------------------------------- *)

\* names a configuration declares
ConfiguredNames == {"provider1", "provider2"}
\* names a request may ask for: the configured ones and an unknown one
RequestNames == ConfiguredNames \cup {"provider3"}
URLs == {"https://a/validate", "https://b/validate"}

\* type Provider struct { Name string; URL string }
Provider == [Name : ConfiguredNames, URL : URLs]

\* sequences over S of length 0..n
SeqUpTo(S, n) == UNION {[1..k -> S] : k \in 0..n}

\* filter *[]string: a nil pointer, or a pointer to a (possibly empty) slice
NilFilter == [isNil |-> TRUE, names |-> <<>>]
FilterOf(names) == [isNil |-> FALSE, names |-> names]
Filters == {NilFilter} \cup {FilterOf(s) : s \in SeqUpTo(RequestNames, MaxFilter)}

\* AccountNumber *string: a nil pointer, or a pointer to a string
NilString == [isNil |-> TRUE, val |-> ""]
StringOf(v) == [isNil |-> FALSE, val |-> v]

\* request.Body: text that is not JSON, the JSON values null and [], and
\* JSON objects with or without the accountNumber and providers members
NonObjectBody(k) == [kind |-> k, accountNumber |-> NilString, providers |-> NilFilter]
RequestBodies ==
    {NonObjectBody(k) : k \in {"syntax", "null", "array"}}
    \cup [kind : {"object"},
          accountNumber : {NilString, StringOf(""), StringOf("12345678")},
          providers : Filters]

\* the PROVIDERS environment variable: unset, or set to a blank text, to
\* text that is not a YAML mapping, or to a mapping with a providers list
EnvUnset == [set |-> FALSE, doc |-> "blank", providers |-> <<>>]
EnvText(d) == [set |-> TRUE, doc |-> d, providers |-> <<>>]
EnvMapping(ps) == [set |-> TRUE, doc |-> "mapping", providers |-> ps]
Environments ==
    {EnvUnset, EnvText("blank"), EnvText("invalid")}
    \cup {EnvMapping(ps) : ps \in SeqUpTo(Provider, MaxProviders)}

\* type Response events.APIGatewayProxyResponse
NoResponse == [StatusCode |-> 0, Body |-> ""]

(* --------------------------- providersToCall --------------------------- *)

\* for _, value := range providers { confMap[value.Name] = value }
RECURSIVE confMapLoop(_, _, _)
confMapLoop(ps, i, m) ==
    IF i > Len(ps) THEN m
    ELSE confMapLoop(ps, i + 1,
             [n \in (DOMAIN m) \cup {ps[i].Name} |->
                 IF n = ps[i].Name THEN ps[i] ELSE m[n]])

confMap(ps) == confMapLoop(ps, 1, <<>>)

\* for _, providerName := range *filter { if exists { append } }
RECURSIVE filterLoop(_, _, _, _)
filterLoop(m, names, i, filteredProviders) ==
    IF i > Len(names) THEN filteredProviders
    ELSE filterLoop(m, names, i + 1,
             IF names[i] \in DOMAIN m
             THEN Append(filteredProviders, m[names[i]])
             ELSE filteredProviders)

\* mutant: walks the configured list and keeps the providers the filter names
providersToCall_ConfigOrder(ps, f) ==
    IF f.isNil THEN ps
    ELSE SelectSeq(ps, LAMBDA p : \E k \in DOMAIN f.names : f.names[k] = p.Name)

\* mutant: appends the map lookup without testing `exists`
providersToCall_NoExists(ps, f) ==
    IF f.isNil THEN ps
    ELSE [k \in DOMAIN f.names |->
             IF f.names[k] \in DOMAIN confMap(ps)
             THEN confMap(ps)[f.names[k]]
             ELSE [Name |-> "", URL |-> ""]]

\* mutant: no nil test, a nil filter is ranged over like an empty one
providersToCall_NilAsEmpty(ps, f) ==
    filterLoop(confMap(ps), f.names, 1, <<>>)

\* mutant: the first configured provider of a name wins in confMap
providersToCall_FirstWins(ps, f) ==
    IF f.isNil THEN ps
    ELSE filterLoop(
            [n \in {ps[i].Name : i \in DOMAIN ps} |->
                ps[CHOOSE i \in DOMAIN ps :
                      /\ ps[i].Name = n
                      /\ \A j \in DOMAIN ps : ps[j].Name = n => i <= j]],
            f.names, 1, <<>>)

providersToCall(ps, f) ==
    IF f.isNil THEN ps
    ELSE filterLoop(confMap(ps), f.names, 1, <<>>)

(* ------------------------------ readConfig ---------------------------- *)

\* handleError: status 500 and the body {"error": message}
handleError(message) == [StatusCode |-> 500, Body |-> message]

\* yaml.Unmarshal([]byte(providerYaml), &config) with config a *Config: a
\* blank text leaves the pointer nil without an error, text that is not a
\* mapping is an error, a mapping fills a Config
yamlUnmarshal(e) ==
    CASE e.doc = "mapping" -> [err |-> FALSE, isNilPtr |-> FALSE, Providers |-> e.providers]
      [] e.doc = "blank"   -> [err |-> FALSE, isNilPtr |-> TRUE,  Providers |-> <<>>]
      [] OTHER             -> [err |-> TRUE,  isNilPtr |-> TRUE,  Providers |-> <<>>]

readConfig(e) ==
    IF ~e.set
    THEN [isNil |-> TRUE, Providers |-> <<>>,
          errResp |-> handleError("ENVVAR PROVIDERS is required")]
    ELSE IF yamlUnmarshal(e).err \/ yamlUnmarshal(e).isNilPtr
    THEN [isNil |-> TRUE, Providers |-> <<>>,
          errResp |-> handleError("ENVVAR PROVIDERS is invalid yaml")]
    ELSE [isNil |-> FALSE, Providers |-> yamlUnmarshal(e).Providers,
          errResp |-> NoResponse]

\* main: lambda.Start(err.OnlyErrors) or lambda.Start(config.Handler)
Main ==
    /\ hpc = "start"
    /\ IF readConfig(env).isNil
       THEN /\ installed' = "OnlyErrors"
            /\ startErr' = readConfig(env).errResp
            /\ config' = config
       ELSE /\ installed' = "Handler"
            /\ startErr' = startErr
            /\ config' = readConfig(env).Providers
    /\ hpc' = "received"
    /\ UNCHANGED <<env, reqBody, account, hresp, filter, selected>>
    /\ UNCHANGED coreVars

\* func (err Response) OnlyErrors() Response { return err }
OnlyErrors ==
    /\ hpc = "received"
    /\ installed = "OnlyErrors"
    /\ hresp' = startErr
    /\ hpc' = "responded"
    /\ UNCHANGED <<env, installed, startErr, reqBody, account, config, filter, selected>>
    /\ UNCHANGED coreVars

(* ---------------------------- unmarshalRequest ------------------------- *)

\* json.Unmarshal([]byte(request.Body), &validationRequest) with
\* validationRequest a *BankAccountValidationRequest: JSON null leaves the
\* pointer nil without an error, an object fills the struct, anything else
\* is an error
decodeRequest(b) ==
    CASE b.kind = "object" -> [err |-> FALSE, isNilPtr |-> FALSE,
                               AccountNumber |-> b.accountNumber, Providers |-> b.providers]
      [] b.kind = "null"   -> [err |-> FALSE, isNilPtr |-> TRUE,
                               AccountNumber |-> NilString, Providers |-> NilFilter]
      [] OTHER             -> [err |-> TRUE, isNilPtr |-> TRUE,
                               AccountNumber |-> NilString, Providers |-> NilFilter]

\* Handler, lines 78-81, with unmarshalRequest: an error response, a
\* validated request, or the panic of validationRequest.AccountNumber on a
\* nil validationRequest
UnmarshalRequest ==
    /\ hpc = "received"
    /\ installed = "Handler"
    /\ IF decodeRequest(reqBody).err
       THEN /\ hresp' = handleError("invalid json payload")
            /\ hpc' = "responded"
            /\ UNCHANGED <<account, filter>>
       ELSE IF decodeRequest(reqBody).isNilPtr
       THEN /\ hpc' = "panicked"
            /\ UNCHANGED <<hresp, account, filter>>
       ELSE IF decodeRequest(reqBody).AccountNumber.isNil
       THEN /\ hresp' = handleError("account number missing from payload")
            /\ hpc' = "responded"
            /\ UNCHANGED <<account, filter>>
       ELSE /\ account' = decodeRequest(reqBody).AccountNumber
            /\ filter' = decodeRequest(reqBody).Providers
            /\ hpc' = "request"
            /\ hresp' = hresp
    /\ UNCHANGED <<env, installed, startErr, reqBody, config, selected>>
    /\ UNCHANGED coreVars

(* ------------------------- the request handler ------------------------- *)

\* Handler, lines 84-86: providersToCall(config.Providers, validationRequest.Providers)
SelectProviders ==
    /\ hpc = "request"
    /\ selected' = providersToCall(config, filter)
    /\ hpc' = "selected"
    /\ UNCHANGED <<env, installed, startErr, reqBody, account, hresp, config, filter>>
    /\ UNCHANGED coreVars

\* Handler, lines 84-86: checkProviders(*validationRequest.AccountNumber,
\* providersToCall(...)) is entered: channel made, nothing launched
InvokeCore ==
    /\ hpc = "selected"
    /\ hpc' = "core"
    /\ accountNumber' = account.val
    /\ providers' = selected
    /\ mpc' = "launch"
    /\ wpc' = [w \in DOMAIN selected |-> "idle"]
    /\ resp' = [w \in DOMAIN selected |-> [post |-> "none", status |-> 0,
                                           read |-> "none", body |-> ""]]
    /\ out' = [w \in DOMAIN selected |-> [Provider |-> "", IsValid |-> FALSE]]
    /\ UNCHANGED <<idx, wg, chanClosed, recvd, results, cpc, crashed, handed>>
    /\ UNCHANGED <<env, installed, startErr, reqBody, account, hresp, config, filter, selected>>

(* ---------------------------- checkProvider ---------------------------- *)

\* bodies a provider can answer with
Bodies == {"<html>", "null", "[]", "{\"isValid\":true}", "{\"isValid\":false}"}

\* what client.Post and io.ReadAll report for one call
NoResp == [post |-> "none", status |-> 0, read |-> "none", body |-> ""]
Responses ==
    {[post |-> e, status |-> 0, read |-> "none", body |-> ""] :
        e \in {"neterr", "timeout"}}
    \cup {[post |-> "ok", status |-> s, read |-> "err", body |-> ""] :
        s \in {200, 500}}
    \cup [post : {"ok"}, status : {200, 500}, read : {"ok"}, body : Bodies]

\* json.Unmarshal(bodyBytes, &providerResponse) with providerResponse a
\* *DataProviderResponse: a syntax or type error is returned, JSON null
\* leaves the pointer nil without an error, an object fills the struct
jsonUnmarshal(body) ==
    CASE body = "{\"isValid\":true}"  -> [err |-> FALSE, isNilPtr |-> FALSE, IsValid |-> TRUE]
      [] body = "{\"isValid\":false}" -> [err |-> FALSE, isNilPtr |-> FALSE, IsValid |-> FALSE]
      [] body = "null"                -> [err |-> FALSE, isNilPtr |-> TRUE,  IsValid |-> FALSE]
      [] OTHER                        -> [err |-> TRUE,  isNilPtr |-> TRUE,  IsValid |-> FALSE]

\* type BankAccountValidationResult struct { Provider string; IsValid bool }
NoResult == [Provider |-> "", IsValid |-> FALSE]
defaultResponse(provider) == [Provider |-> provider.Name, IsValid |-> FALSE]

\* providerResponse.IsValid dereferences a nil pointer
derefPanics(r) ==
    /\ r.post = "ok"
    /\ r.read = "ok"
    /\ ~jsonUnmarshal(r.body).err
    /\ jsonUnmarshal(r.body).isNilPtr

\* mutant: the verdict of the provider is dropped
checkProviderResult_AlwaysDefault(provider, r) == defaultResponse(provider)

\* mutant: the default outcome is built with IsValid true
checkProviderResult_DefaultValid(provider, r) ==
    IF r.post # "ok" \/ r.read # "ok" \/ jsonUnmarshal(r.body).err
    THEN [Provider |-> provider.Name, IsValid |-> TRUE]
    ELSE [Provider |-> provider.Name, IsValid |-> jsonUnmarshal(r.body).IsValid]

\* the value checkProvider sends on the channel, by the path it takes
checkProviderResult(provider, r) ==
    IF r.post # "ok" THEN defaultResponse(provider)
    ELSE IF r.read # "ok" THEN defaultResponse(provider)
    ELSE IF jsonUnmarshal(r.body).err THEN defaultResponse(provider)
    ELSE [Provider |-> provider.Name, IsValid |-> jsonUnmarshal(r.body).IsValid]

Workers == DOMAIN providers

\* checkProvider up to its send: the HTTP exchange and the decoding
Call(w) ==
    /\ ~crashed
    /\ wpc[w] = "call"
    /\ \E r \in Responses :
         /\ resp' = [resp EXCEPT ![w] = r]
         /\ IF derefPanics(r)
            THEN /\ wpc' = [wpc EXCEPT ![w] = "panicking"]
                 /\ out' = out
            ELSE /\ wpc' = [wpc EXCEPT ![w] = "send"]
                 /\ out' = [out EXCEPT ![w] = checkProviderResult(providers[w], r)]
    /\ UNCHANGED <<accountNumber, providers, mpc, idx, wg, chanClosed, recvd, results, cpc, crashed, handed>>
    /\ UNCHANGED filterVars

\* c <- result on the unbuffered channel: completes only with the collector
\* blocked in its receive
Send(w) ==
    /\ ~crashed
    /\ wpc[w] = "send"
    /\ mpc = "range"
    /\ ~chanClosed
    /\ recvd' = out[w]
    /\ handed' = Append(handed, w)
    /\ mpc' = "append"
    /\ wpc' = [wpc EXCEPT ![w] = "sent"]
    /\ UNCHANGED <<accountNumber, providers, idx, wg, chanClosed, results, cpc, resp, out, crashed>>
    /\ UNCHANGED filterVars

\* defer (*wg).Done(): runs when checkProvider returns and when it panics
Done(w) ==
    /\ ~crashed
    /\ wpc[w] \in {"sent", "panicking"}
    /\ wg' = wg - 1
    /\ wpc' = [wpc EXCEPT ![w] = IF wpc[w] = "sent" THEN "done" ELSE "fatal"]
    /\ UNCHANGED <<accountNumber, providers, mpc, idx, chanClosed, recvd, results, cpc, resp, out, crashed, handed>>
    /\ UNCHANGED filterVars

\* an unrecovered panic ends the process once the deferred calls have run
Crash ==
    /\ ~crashed
    /\ \E w \in Workers : wpc[w] = "fatal"
    /\ crashed' = TRUE
    /\ UNCHANGED <<accountNumber, providers, mpc, idx, wg, chanClosed, recvd, results, cpc, wpc, resp, out, handed>>
    /\ UNCHANGED filterVars

(* ---------------------------- checkProviders --------------------------- *)

\* mutant: a launch waits for the invocation launched before it to finish
Launch_Sequential ==
    /\ ~crashed
    /\ mpc = "launch"
    /\ idx <= Len(providers)
    /\ (idx > 1 => wpc[idx - 1] = "done")
    /\ wg' = wg + 1
    /\ wpc' = [wpc EXCEPT ![idx] = "call"]
    /\ idx' = idx + 1
    /\ UNCHANGED <<accountNumber, providers, mpc, chanClosed, recvd, results, cpc, resp, out, crashed, handed>>
    /\ UNCHANGED filterVars

\* for _, provider := range providers { wg.Add(1); go checkProvider(...) }
Launch ==
    /\ ~crashed
    /\ mpc = "launch"
    /\ idx <= Len(providers)
    /\ wg' = wg + 1
    /\ wpc' = [wpc EXCEPT ![idx] = "call"]
    /\ idx' = idx + 1
    /\ UNCHANGED <<accountNumber, providers, mpc, chanClosed, recvd, results, cpc, resp, out, crashed, handed>>
    /\ UNCHANGED filterVars

\* go func() { wg.Wait(); close(channel) }(); results := []; for ... range channel
StartCloser ==
    /\ ~crashed
    /\ mpc = "launch"
    /\ idx > Len(providers)
    /\ cpc' = "wait"
    /\ mpc' = "range"
    /\ UNCHANGED <<accountNumber, providers, idx, wg, chanClosed, recvd, results, wpc, resp, out, crashed, handed>>
    /\ UNCHANGED filterVars

\* mutant: the closer does not wait for the WaitGroup
CloserWait_NoWait ==
    /\ ~crashed
    /\ cpc = "wait"
    /\ cpc' = "close"
    /\ UNCHANGED <<accountNumber, providers, mpc, idx, wg, chanClosed, recvd, results, wpc, resp, out, crashed, handed>>
    /\ UNCHANGED filterVars

\* wg.Wait() returns when the counter is zero
CloserWait ==
    /\ ~crashed
    /\ cpc = "wait"
    /\ wg = 0
    /\ cpc' = "close"
    /\ UNCHANGED <<accountNumber, providers, mpc, idx, wg, chanClosed, recvd, results, wpc, resp, out, crashed, handed>>
    /\ UNCHANGED filterVars

\* close(channel)
CloserClose ==
    /\ ~crashed
    /\ cpc = "close"
    /\ chanClosed' = TRUE
    /\ cpc' = "done"
    /\ UNCHANGED <<accountNumber, providers, mpc, idx, wg, recvd, results, wpc, resp, out, crashed, handed>>
    /\ UNCHANGED filterVars

\* mutant: the received outcome is put in front of the results
CollectAppend_Prepend ==
    /\ ~crashed
    /\ mpc = "append"
    /\ results' = <<recvd>> \o results
    /\ mpc' = "range"
    /\ UNCHANGED <<accountNumber, providers, idx, wg, chanClosed, recvd, cpc, wpc, resp, out, crashed, handed>>
    /\ UNCHANGED filterVars

\* results = append(results, result)
CollectAppend ==
    /\ ~crashed
    /\ mpc = "append"
    /\ results' = Append(results, recvd)
    /\ mpc' = "range"
    /\ UNCHANGED <<accountNumber, providers, idx, wg, chanClosed, recvd, cpc, wpc, resp, out, crashed, handed>>
    /\ UNCHANGED filterVars

\* mutant: the collector returns without the channel being closed
Return_NoClose ==
    /\ ~crashed
    /\ mpc = "range"
    /\ mpc' = "returned"
    /\ UNCHANGED <<accountNumber, providers, idx, wg, chanClosed, recvd, results, cpc, wpc, resp, out, crashed, handed>>
    /\ UNCHANGED filterVars

\* the range loop ends on the closed channel;
\* return BankAccountValidationResponse{Result: results}
Return ==
    /\ ~crashed
    /\ mpc = "range"
    /\ chanClosed
    /\ mpc' = "returned"
    /\ UNCHANGED <<accountNumber, providers, idx, wg, chanClosed, recvd, results, cpc, wpc, resp, out, crashed, handed>>
    /\ UNCHANGED filterVars

(* --------------------------- specifications ---------------------------- *)

\* the core at rest: no invocation of checkProviders
CoreIdle ==
    /\ accountNumber = ""
    /\ providers = <<>>
    /\ mpc = "idle"
    /\ idx = 1
    /\ wg = 0
    /\ chanClosed = FALSE
    /\ recvd = NoResult
    /\ results = <<>>
    /\ cpc = "idle"
    /\ wpc = <<>>
    /\ resp = <<>>
    /\ out = <<>>
    /\ crashed = FALSE
    /\ handed = <<>>

\* the handler at rest
HandlerIdle ==
    /\ env = EnvUnset
    /\ installed = "none"
    /\ startErr = NoResponse
    /\ reqBody = NonObjectBody("null")
    /\ account = NilString
    /\ hresp = NoResponse
    /\ config = <<>>
    /\ filter = NilFilter
    /\ hpc = "idle"
    /\ selected = <<>>

\* a configuration as yaml.Unmarshal delivers it and a decoded request
FilterInit ==
    /\ config \in SeqUpTo(Provider, MaxProviders)
    /\ filter \in Filters
    /\ env = EnvMapping(config)
    /\ installed = "Handler"
    /\ startErr = NoResponse
    /\ account = StringOf("12345678")
    /\ reqBody = [kind |-> "object", accountNumber |-> account, providers |-> filter]
    /\ hresp = NoResponse
    /\ hpc = "request"
    /\ selected = <<>>
    /\ CoreIdle

FilterNext == SelectProviders

FilterSpec == FilterInit /\ [][FilterNext]_vars

\* process start with one request to come: the environment and the body of
\* the request are drawn
HandlerInit ==
    /\ env \in Environments
    /\ reqBody \in RequestBodies
    /\ installed = "none"
    /\ startErr = NoResponse
    /\ account = NilString
    /\ hresp = NoResponse
    /\ config = <<>>
    /\ filter = NilFilter
    /\ hpc = "start"
    /\ selected = <<>>
    /\ CoreIdle

HandlerNext ==
    \/ Main
    \/ OnlyErrors
    \/ UnmarshalRequest
    \/ SelectProviders
    \/ InvokeCore

HandlerSpec == HandlerInit /\ [][HandlerNext]_vars

\* provider lists handed to checkProviders; the URL decides nothing in the
\* model (the answer of the provider is drawn in Call), so one URL per name
CoreProvider == {[Name |-> n, URL |-> "https://a/validate"] : n \in ConfiguredNames}

\* entry of checkProviders: channel made, WaitGroup zero, nothing launched
Init ==
    /\ accountNumber = "12345678"
    /\ providers \in SeqUpTo(CoreProvider, MaxProviders)
    /\ mpc = "launch"
    /\ idx = 1
    /\ wg = 0
    /\ chanClosed = FALSE
    /\ recvd = NoResult
    /\ results = <<>>
    /\ cpc = "idle"
    /\ wpc = [w \in DOMAIN providers |-> "idle"]
    /\ resp = [w \in DOMAIN providers |-> NoResp]
    /\ out = [w \in DOMAIN providers |-> NoResult]
    /\ crashed = FALSE
    /\ handed = <<>>
    /\ HandlerIdle

Next ==
    \/ Launch
    \/ StartCloser
    \/ CloserWait
    \/ CloserClose
    \/ CollectAppend
    \/ Return
    \/ Crash
    \/ \E w \in Workers : Call(w)
    \/ \E w \in Workers : Send(w)
    \/ \E w \in Workers : Done(w)

Spec == Init /\ [][Next]_vars

\* the scheduler runs every goroutine that can step, the HTTP client ends
\* every call within its Timeout, and the runtime exits after a panic
Fairness ==
    /\ WF_vars(Launch)
    /\ WF_vars(StartCloser)
    /\ WF_vars(CloserWait)
    /\ WF_vars(CloserClose)
    /\ WF_vars(CollectAppend)
    /\ WF_vars(Return)
    /\ WF_vars(Crash)
    /\ \A w \in 1..MaxProviders :
          /\ WF_vars(w \in Workers /\ Call(w))
          /\ WF_vars(w \in Workers /\ Send(w))
          /\ WF_vars(w \in Workers /\ Done(w))

FairSpec == Init /\ [][Next]_vars /\ Fairness

(* ------------------------------ properties ----------------------------- *)

Range(s) == {s[i] : i \in DOMAIN s}
Names(ps) == [i \in DOMAIN ps |-> ps[i].Name]

\* the worker has produced the value it sends
Produced(w) == wpc[w] \in {"send", "sent", "done"}

\* the call of worker w answered {isValid: b} with a success status
Succeeded(r, b) ==
    /\ r.post = "ok"
    /\ r.status = 200
    /\ r.read = "ok"
    /\ r.body = (IF b THEN "{\"isValid\":true}" ELSE "{\"isValid\":false}")

\* the call failed: network error, timeout, non-success status, unreadable
\* or malformed body
Failed(r) ==
    \/ r.post # "ok"
    \/ r.status # 200
    \/ r.read # "ok"
    \/ jsonUnmarshal(r.body).err

\* C1: the result checkProviders returns holds exactly N outcomes, N the
\* length of the provider list, whatever the providers answered.
C1_ExactlyNOutcomes ==
    mpc = "returned" => Len(results) = Len(providers)

\* C2: checkProvider never panics, whatever the provider answers.
C2_NeverPanics ==
    \A w \in Workers : wpc[w] \notin {"panicking", "fatal"}

\* C3: for every failed call (network error, timeout, non-success status,
\* unreadable or malformed body) the outcome produced is
\* {Provider: provider.Name, IsValid: false}.
C3_FailureGivesDefault ==
    \A w \in Workers :
        (Produced(w) /\ Failed(resp[w])) => out[w] = defaultResponse(providers[w])

\* C4: a call that succeeds with {isValid: b} produces the outcome
\* {provider name, b}, for b true and b false; checkProviders for
\* [provider1] answering {isValid:true} returns exactly [{provider1, true}].
C4_SuccessReflectsVerdict ==
    /\ \A w \in Workers : \A b \in BOOLEAN :
          (Produced(w) /\ Succeeded(resp[w], b))
              => out[w] = [Provider |-> providers[w].Name, IsValid |-> b]
    /\ ( /\ mpc = "returned"
         /\ Names(providers) = <<"provider1">>
         /\ Succeeded(resp[1], TRUE) )
       => results = <<[Provider |-> "provider1", IsValid |-> TRUE]>>

C4_Witness ==
    /\ mpc = "returned"
    /\ Names(providers) = <<"provider1">>
    /\ Succeeded(resp[1], TRUE)
    /\ results = <<[Provider |-> "provider1", IsValid |-> TRUE]>>

\* sel lists its elements in the order they have in conf
IsOrderedAs(sel, conf) ==
    \A i, j \in DOMAIN sel :
        i < j => \E a, b \in DOMAIN conf :
                    a <= b /\ conf[a] = sel[i] /\ conf[b] = sel[j]

\* C5 as stated: with a filter present, the selected providers come in the
\* order they have in the configured list.
C5_ConfiguredOrder ==
    (hpc = "selected" /\ ~filter.isNil) => IsOrderedAs(selected, config)

\* C5 amended: with a filter present, the selected providers come in the
\* order their names have in the filter: the names of the result are the
\* filter's names with the unconfigured ones left out, and every element is
\* a configured provider.
C5_FilterOrder ==
    (hpc = "selected" /\ ~filter.isNil) =>
        /\ Names(selected) =
              SelectSeq(filter.names, LAMBDA n : n \in Range(Names(config)))
        /\ Range(selected) \subseteq Range(config)

C5_Witness ==
    /\ hpc = "selected"
    /\ Names(config) = <<"provider1", "provider2">>
    /\ filter = FilterOf(<<"provider2", "provider1">>)
    /\ selected = <<config[2], config[1]>>

HasDuplicate(s) == \E i, j \in DOMAIN s : i # j /\ s[i] = s[j]

\* C6: when a name occurs more than once in the filter, every matching
\* provider is still selected at most once.
C6_NoDuplicateSelection ==
    (hpc = "selected" /\ ~filter.isNil /\ HasDuplicate(filter.names))
        => ~HasDuplicate(Names(selected))

\* C7: a filter name that matches no configured provider adds nothing and
\* raises nothing: every selected element is a configured provider whose
\* name is in the filter, no more elements are selected than the filter has
\* configured names; [provider1, provider3] against [provider1, provider2]
\* selects [provider1] and [provider3] selects nothing.
C7_UnknownNamesDropped ==
    (hpc = "selected" /\ ~filter.isNil) =>
        /\ \A i \in DOMAIN selected :
              /\ selected[i] \in Range(config)
              /\ selected[i].Name \in Range(filter.names)
        /\ Len(selected) =
              Cardinality({k \in DOMAIN filter.names :
                              filter.names[k] \in Range(Names(config))})
        /\ ( /\ Names(config) = <<"provider1", "provider2">>
             /\ filter.names = <<"provider1", "provider3">> )
           => selected = <<config[1]>>
        /\ filter.names = <<"provider3">> => selected = <<>>

C7_Witness ==
    /\ hpc = "selected"
    /\ Names(config) = <<"provider1", "provider2">>
    /\ filter = FilterOf(<<"provider1", "provider3">>)
    /\ selected = <<config[1]>>

\* C8: a nil filter selects all configured providers in their configured
\* order; a present but empty filter selects nothing.
C8_NilVersusEmpty ==
    hpc = "selected" =>
        /\ filter.isNil => selected = config
        /\ (~filter.isNil /\ filter.names = <<>>) => selected = <<>>

C8_Witness ==
    /\ hpc = "selected"
    /\ filter.isNil
    /\ Len(config) = 2
    /\ selected = config

LastOfName(ps, i) ==
    CHOOSE j \in DOMAIN ps :
        /\ ps[j].Name = ps[i].Name
        /\ \A k \in DOMAIN ps : ps[k].Name = ps[i].Name => k <= j

C10_DistinctKnownNames ==
    mpc = "returned" =>
        /\ \A i \in DOMAIN results :
              \E w \in Workers : results[i].Provider = providers[w].Name
        /\ \A i, j \in DOMAIN results :
              i # j => results[i].Provider # results[j].Provider

\* the invocation of worker w has ended: it returned after its send and its
\* Done, or it panicked and its deferred Done has run
Finished(w) == wpc[w] \in {"done", "fatal"}

\* C11: at the moment checkProviders returns, every launched checkProvider
\* invocation has finished; none is in flight or waiting to hand over.
C11_ReturnsAfterAllFinished ==
    mpc = "returned" => \A w \in Workers : Finished(w)

C11_Witness ==
    /\ mpc = "returned"
    /\ Len(providers) = 2
    /\ \A w \in Workers : wpc[w] = "done"

\* C12: under fair scheduling, every call answering or timing out,
\* checkProviders eventually returns.
C12_EventuallyReturns == <>(mpc = "returned")

\* C13 as stated: with an empty provider list no goroutine of any kind is
\* started and an empty result is returned.
C13_NoGoroutineWhenEmpty ==
    Len(providers) = 0 =>
        /\ cpc = "idle"
        /\ results = <<>>

\* C13 amended: with an empty provider list checkProviders launches no
\* checkProvider invocation and returns an empty result, but it starts the
\* closer goroutine and returns only after that goroutine has closed the
\* channel, which nothing holds up (the WaitGroup counter is zero).
C13_EmptyListOnlyCloser ==
    (Len(providers) = 0 /\ mpc # "idle") =>
        /\ results = <<>>
        /\ wg = 0
        /\ mpc # "append"
        /\ mpc = "range" => cpc \in {"wait", "close", "done"}
        /\ mpc = "returned" => (cpc = "done" /\ chanClosed)

C13_Witness ==
    /\ Len(providers) = 0
    /\ mpc = "returned"
    /\ cpc = "done"
    /\ results = <<>>

\* the call itself failed: client.Post or io.ReadAll returned an error
\* (connection refused, timeout)
CallFailed(r) == r.post \in {"neterr", "timeout"} \/ r.read = "err"

InFlight(w) == wpc[w] \in {"call", "send", "sent", "panicking"}

\* C18: checkProviders launches exactly one checkProvider invocation per
\* element of the list, in list order and each bound to its own provider,
\* and a launch never waits for an invocation launched before it.
C18_OneLaunchPerProvider ==
    mpc # "idle" =>
        /\ {w \in Workers : wpc[w] # "idle"} = 1..(idx - 1)
        /\ mpc # "launch" => idx = Len(providers) + 1
        /\ wg = Cardinality({w \in Workers : InFlight(w)})
        /\ \A w \in Workers : Produced(w) => out[w].Provider = providers[w].Name
        /\ (mpc = "launch" /\ idx <= Len(providers) /\ ~crashed) => ENABLED Launch

\* all invocations of a list of two or more providers are in flight at once
C18_Witness ==
    /\ Len(providers) >= 2
    /\ \A w \in Workers : wpc[w] = "call"

C20_CloseAfterAllSent ==
    /\ wg >= 0
    /\ chanClosed => \A w \in Workers : wpc[w] = "done"

\* the payload is unparseable or carries no account number
BadPayload(b) == b.kind # "object" \/ b.accountNumber.isNil

\* C15: for every payload that is unparseable or carries no account number
\* the Handler answers with status 500 and an error message, and
\* checkProviders is not invoked.
C15_BadPayloadGets500 ==
    (installed = "Handler" /\ BadPayload(reqBody) /\ hpc # "received") =>
        /\ hpc = "responded"
        /\ hresp.StatusCode = 500
        /\ hresp.Body # ""
        /\ mpc = "idle"

\* C16: whenever the Handler invokes checkProviders, the account number it
\* passes is a non-empty string.
C16_AccountNumberNonEmpty ==
    mpc # "idle" => accountNumber # ""

\* the configuration is missing, invalid, or configures no providers
NoProvidersConfigured(e) ==
    \/ ~e.set
    \/ e.doc # "mapping"
    \/ e.providers = <<>>

\* C17: when the configuration is missing or invalid or configures no
\* providers, readConfig yields no config and a status-500 response, main
\* serves only that response and checkProviders is invoked for no request.
C17_NoConfigNoCore ==
    (hpc # "start" /\ NoProvidersConfigured(env)) =>
        /\ installed = "OnlyErrors"
        /\ startErr.StatusCode = 500
        /\ startErr.Body = (IF env.set THEN "ENVVAR PROVIDERS is invalid yaml"
                                       ELSE "ENVVAR PROVIDERS is required")
        /\ hpc = "responded" => hresp = startErr
        /\ mpc = "idle"

====
